---- MODULE Spec2Model ----
(***************************************************************************)
(* Road-splitting and cleanup pipeline of TAZ_for_LCZ (split_LCZ.py and    *)
(* construct_qgis_functions.py).                                           *)
(*                                                                         *)
(* Eight specifications share the variables below:                          *)
(*   SpecExclude  exclude_edges, one loop iteration per step               *)
(*   SpecRemain   post_process_road's union and calc_remained_road         *)
(*   SpecWrapper  one wrapper call against the processing service          *)
(*   SpecFilter   merge_shapefile through filter_lcz_vectors               *)
(*   Spec         merge_shapefile, whole                                   *)
(*   SpecFiles    delete_shapefile and rename_shapefile, file by file      *)
(*   SpecMask     exclude_by_mask, its pool workers interleaved            *)
(*   SpecExtract  extract_by_value                                         *)
(***************************************************************************)
EXTENDS Integers, Sequences, FiniteSets, TLC

\* ------------------------------------------------------------------- state
\* exclude_edges: its arguments (the layer's FID column in iteration order,
\* edge_type, whether the layer has the named field), its locals and result.
VARIABLES ee_rows, ee_type, ee_has_field, ee_pc, ee_i, ee_stack, ee_last_fid, ee_ret, ee_errors, ee_opened

eeVars == <<ee_rows, ee_type, ee_has_field, ee_pc, ee_i, ee_stack, ee_last_fid, ee_ret, ee_errors, ee_opened>>

\* calc_remained_road and the union step of post_process_road before it: the
\* caller, the two rule outputs, the arguments, the locals and the result;
\* rr_disk0 is the disk when the call was made.
VARIABLES rr_caller, rr_pc, rr_path, rr_fids, rr_bial, rr_single, rr_exclude, rr_scan_index, rr_remained, rr_k, rr_branch, rr_ret, rr_warnings, rr_errors, rr_disk0

rrVars == <<rr_caller, rr_pc, rr_path, rr_fids, rr_bial, rr_single, rr_exclude, rr_scan_index, rr_remained, rr_k, rr_branch, rr_ret, rr_warnings, rr_errors, rr_disk0>>

\* merge_shapefile: the statement about to run, the path variables of
\* merge_shapefile and of the stages it calls, the calls made so far (wrapper
\* or delete_shapefile, with the paths passed), the number of errors logged
\* and post_process_road's exclude_list.
VARIABLES pc, loc, calls, errors, pl_exclude_list

plVars == <<pc, loc, calls, errors, pl_exclude_list>>

\* One wrapper of construct_qgis_functions called on its own: the wrapper,
\* its two path arguments, whether the service call succeeded, what the
\* wrapper returned and how many errors it logged.
VARIABLES ws_pc, ws_wrapper, ws_a, ws_b, ws_good, ws_ret, ws_logged

wsVars == <<ws_pc, ws_wrapper, ws_a, ws_b, ws_good, ws_ret, ws_logged>>

\* delete_shapefile or rename_shapefile on the files of one directory: the
\* function, its arguments (the file name of shp_path, new_name), whether
\* os.rename replaces an existing file (POSIX) or raises (Windows), the file
\* names in the directory now and at the call, and the entries of the
\* os.listdir result the loop has not come to yet.
VARIABLES fs_pc, fs_op, fs_path, fs_new_name, fs_posix, fs_files, fs_files0, fs_todo

fsVars == <<fs_pc, fs_op, fs_path, fs_new_name, fs_posix, fs_files, fs_files0, fs_todo>>

\* exclude_by_mask: where the orchestrating thread is, the geometry of every
\* line and mask polygon (the cells it covers), the state of every submitted
\* task, the tasks whose result the orchestrating thread has taken, the ids
\* of the features added to result_layer, and what the function returned.
VARIABLES mk_pc, mk_lines, mk_polys, mk_task, mk_consumed, mk_result, mk_ret

mkVars == <<mk_pc, mk_lines, mk_polys, mk_task, mk_consumed, mk_result, mk_ret>>

\* extract_by_value: its operator and value arguments, the request it sent
\* to the service, and what it returned.
VARIABLES ev_pc, ev_operator, ev_value, ev_request, ev_ret

evVars == <<ev_pc, ev_operator, ev_value, ev_request, ev_ret>>

\* The layers on disk (see "the disk" below).
VARIABLES disk

vars == <<eeVars, rrVars, plVars, wsVars, fsVars, mkVars, evVars, disk>>

\* What the actions of one group leave alone.
eeOthers == <<rrVars, plVars, wsVars, fsVars, mkVars, evVars, disk>>
rrOthers == <<eeVars, plVars, wsVars, fsVars, mkVars, evVars>>
plOthers == <<eeVars, rrVars, wsVars, fsVars, mkVars, evVars>>
wsOthers == <<eeVars, rrVars, plVars, fsVars, mkVars, evVars>>
fsOthers == <<eeVars, rrVars, plVars, wsVars, mkVars, evVars, disk>>
mkOthers == <<eeVars, rrVars, plVars, wsVars, fsVars, evVars>>
evOthers == <<eeVars, rrVars, plVars, wsVars, fsVars, mkVars>>

\* ------------------------------------------------------------------ bounds
\* Largest FID / exclusion value drawn for the scans.
MaxFid == 3
\* Longest row sequence scanned by exclude_edges.
MaxRows == 4

\* ----------------------------------------------------------- pure helpers
\* Python None.
None == [kind |-> "None", val |-> <<>>]
\* A Python list value.
PyList(s) == [kind |-> "list", val |-> s]
\* No value yet (the function has not returned).
Unset == [kind |-> "unset", val |-> <<>>]

\* The elements of a sequence: set(list).
SetOf(s) == {s[i] : i \in DOMAIN s}

\* All sequences over S of length at most n.
SeqsUpTo(S, n) == UNION {[1..k -> S] : k \in 0..n}

\* ============================================================ exclude_edges
EdgeTypes == {"bial", "single", "other"}

\* A mis-reading of the tag check that accepts every tag.
ValidEdgeType_any(edge_type) == TRUE

\* split_LCZ.py:174-180: only "bial" and "single" select a rule.
ValidEdgeType(edge_type) == edge_type \in {"bial", "single"}

\* split_LCZ.py:175,177: compare_operator is True for "single", False for "bial".
compare_operator(edge_type) == edge_type = "single"

\* The stack machine's state after one row, or "raise" when pop() meets an
\* empty list (IndexError). st = [stack, last_fid, raised].
ScanRow(st, fid, single) ==
    IF st.raised THEN st
    ELSE IF ~single
    THEN [stack |-> IF st.last_fid = fid THEN Append(st.stack, fid) ELSE st.stack,
          last_fid |-> fid, raised |-> FALSE]
    ELSE IF st.last_fid = 0
    THEN [stack |-> Append(st.stack, fid), last_fid |-> fid, raised |-> FALSE]
    ELSE IF st.last_fid = fid
    THEN IF Len(st.stack) = 0
         THEN [stack |-> st.stack, last_fid |-> st.last_fid, raised |-> TRUE]
         ELSE [stack |-> SubSeq(st.stack, 1, Len(st.stack) - 1), last_fid |-> fid, raised |-> FALSE]
    ELSE [stack |-> Append(st.stack, fid), last_fid |-> fid, raised |-> FALSE]

\* split_LCZ.py:182,187: stack = [], last_fid = 0.
ScanInit == [stack |-> <<>>, last_fid |-> 0, raised |-> FALSE]

InitExclude ==
    /\ ee_rows \in SeqsUpTo(0..MaxFid, MaxRows)
    /\ ee_type \in EdgeTypes
    /\ ee_has_field \in BOOLEAN
    /\ ee_pc = "call"
    /\ ee_i = 0
    /\ ee_stack = <<>>
    /\ ee_last_fid = 0
    /\ ee_ret = Unset
    /\ ee_errors = 0
    /\ ee_opened = FALSE

\* split_LCZ.py:174-187: tag check, open the layer, look the field up.
ExcludeEdgesEnter ==
    /\ ee_pc = "call"
    /\ IF ~ValidEdgeType(ee_type)
       THEN /\ ee_errors' = ee_errors + 1
            /\ ee_ret' = None
            /\ ee_pc' = "returned"
            /\ UNCHANGED ee_opened
       ELSE /\ ee_opened' = TRUE
            /\ IF ~ee_has_field
               THEN /\ ee_errors' = ee_errors + 1
                    /\ ee_ret' = PyList(<<>>)
                    /\ ee_pc' = "returned"
               ELSE /\ ee_pc' = "loop"
                    /\ UNCHANGED <<ee_errors, ee_ret>>
    /\ ee_stack' = ScanInit.stack
    /\ ee_last_fid' = ScanInit.last_fid
    /\ UNCHANGED <<ee_rows, ee_type, ee_has_field, ee_i>>
    /\ UNCHANGED eeOthers

\* split_LCZ.py:188-200: one iteration of the loop over layer.getFeatures().
ExcludeEdgesRow ==
    /\ ee_pc = "loop"
    /\ ee_i < Len(ee_rows)
    /\ LET st == ScanRow([stack |-> ee_stack, last_fid |-> ee_last_fid, raised |-> FALSE],
                         ee_rows[ee_i + 1], compare_operator(ee_type))
       IN /\ ee_stack' = st.stack
          /\ ee_last_fid' = st.last_fid
          /\ ee_pc' = IF st.raised THEN "raised" ELSE "loop"
          /\ ee_i' = IF st.raised THEN ee_i ELSE ee_i + 1
    /\ UNCHANGED <<ee_rows, ee_type, ee_has_field, ee_ret, ee_errors, ee_opened>>
    /\ UNCHANGED eeOthers

\* split_LCZ.py:201: return stack.
ExcludeEdgesReturn ==
    /\ ee_pc = "loop"
    /\ ee_i = Len(ee_rows)
    /\ ee_ret' = PyList(ee_stack)
    /\ ee_pc' = "returned"
    /\ UNCHANGED <<ee_rows, ee_type, ee_has_field, ee_i, ee_stack, ee_last_fid, ee_errors, ee_opened>>
    /\ UNCHANGED eeOthers

NextExclude == ExcludeEdgesEnter \/ ExcludeEdgesRow \/ ExcludeEdgesReturn

\* ------------------------------------------------ exclude_edges: claims
\* Rows in FID order: equal FIDs are adjacent, values never decrease.
IsOrdered(rows) == \A i \in 1..(Len(rows) - 1) : rows[i] <= rows[i + 1]

\* The FIDs that occur an odd number of times in rows.
OddFids(rows) == {f \in SetOf(rows) : Cardinality({i \in DOMAIN rows : rows[i] = f}) % 2 = 1}

\* The FIDs carried by a row whose immediate predecessor has the same FID.
RepeatedFids(rows) == {rows[i] : i \in {j \in 2..Len(rows) : rows[j] = rows[j - 1]}}

\* C2 (as claimed): rule "single" leaves on the stack exactly the FIDs that
\* occur an odd number of times in the ordered sequence it scanned.
C2_SingleOddParity ==
    (ee_pc = "returned" /\ ee_type = "single" /\ ee_has_field /\ IsOrdered(ee_rows))
        => SetOf(ee_ret.val) = OddFids(ee_rows)

\* C3 (as claimed): rule "bial" records a FID exactly when some row carrying
\* it directly follows a row with the same FID; the first row alone records
\* nothing.
C3_BialConsecutiveRepeats ==
    (ee_pc = "returned" /\ ee_type = "bial" /\ ee_has_field)
        => SetOf(ee_ret.val) = RepeatedFids(ee_rows)

\* C8: an unrecognized edge_type returns None with one error logged, without
\* opening or scanning the layer and without ever entering the loop of either
\* rule; a missing FID field returns the empty list with one error logged and
\* no row scanned.
C8_InvalidTagRejected ==
    /\ (ee_type \notin {"bial", "single"}) => (ee_pc \in {"call", "returned"} /\ ~ee_opened)
    /\ (ee_pc = "returned" /\ ee_type \notin {"bial", "single"})
        => (ee_ret = None /\ ee_errors = 1 /\ ee_i = 0 /\ ee_stack = <<>>)
    /\ (ee_pc = "returned" /\ ee_type \in {"bial", "single"} /\ ~ee_has_field)
        => (ee_ret = PyList(<<>>) /\ ee_errors = 1 /\ ee_i = 0)

\* C8 witness: an unknown tag was rejected on a layer that has rows and the field.
C8_Witness ==
    ee_pc = "returned" /\ ee_type = "other" /\ ee_has_field /\ Len(ee_rows) > 1 /\ ee_ret = None

\* The rows in which fid stands.
RowsOf(fid) == {i \in DOMAIN ee_rows : ee_rows[i] = fid}

\* fid stands in exactly two rows, one right after the other.
BalancedPair(fid) ==
    \E i \in DOMAIN ee_rows : RowsOf(fid) = {i, i + 1} /\ (i + 1) \in DOMAIN ee_rows

\* C16 (as claimed): rule "single" returns no FID whose two endpoints stand
\* in adjacent rows, FID 0 included, so a sequence made of such pairs only
\* yields the empty list.
C16_BalancedPairNotExcluded ==
    (ee_pc = "returned" /\ ee_type = "single" /\ ee_has_field)
        => /\ \A fid \in SetOf(ee_rows) : BalancedPair(fid) => fid \notin SetOf(ee_ret.val)
           /\ (\A fid \in SetOf(ee_rows) : BalancedPair(fid)) => ee_ret = PyList(<<>>)

\* C22 (as claimed): under rule "single" the scan of any FID sequence runs to
\* its end and returns the stack; pop is never reached with an empty stack.
C22_SingleNeverUnderflows ==
    (ee_type = "single" /\ ee_has_field)
        => /\ ee_pc # "raised"
           /\ (ee_pc = "loop" /\ ee_i < Len(ee_rows) /\ ee_last_fid # 0 /\ ee_last_fid = ee_rows[ee_i + 1])
                 => Len(ee_stack) > 0

\* ============================================================== the disk
\* A layer path is the sequence of name parts joined by "_" before ".shp":
\* <<"natural", "roads", "c">> is natural_roads_c.shp.  disk maps the base
\* name of every layer on disk to its sidecar extensions, attribute schema
\* and features (feature ids are positional: the i-th feature has id i - 1).
\* The empty-path failure sentinel "".
Sentinel == <<>>
\* A local variable that holds no path yet.
NoPath == <<"?">>
\* A NULL attribute value.
NULL == -1

\* The layers whose paths carry a directory (inputs handed to the pipeline).
Roots == {"result1", "natural", "water", "splited"}

\* The sidecar files a written shapefile consists of.
ShapefileExts == {"shp", "shx", "dbf"}

\* A feature: its geometry (an identity), the id of the input feature it was
\* derived from, and the attributes monoid, FID_2 and FID (NULL when the
\* layer has no such field or the value is null).
Feature(geom, src, monoid, fid2, fid) == [geom |-> geom, src |-> src, monoid |-> monoid, FID_2 |-> fid2, FID |-> fid]

Layer(fields, feats) == [exts |-> ShapefileExts, fields |-> fields, feats |-> feats]

\* A naming that gives the output the path of the layer it is named after.
generate_save_path_same(origin_path, prefix) == origin_path

\* construct_qgis_functions.py:31-35: <dir>/<name>_<prefix>.shp.
generate_save_path(origin_path, prefix) == Append(origin_path, prefix)

\* os.path.exists(path): the .shp file itself is on disk.
path_exists(d, path) == path \in DOMAIN d /\ "shp" \in d[path].exts

\* os.path.dirname(path) is "" for the sentinel and for a bare file name, and
\* os.listdir("") raises FileNotFoundError.
listdir_raises(shp_path) == shp_path = Sentinel \/ shp_path[1] \notin Roots

\* A delete that matches on the base name without the dot after it: every
\* layer whose name begins with the name goes.
delete_shapefile_prefix(d, shp_path) ==
    [q \in {r \in DOMAIN d : ~(Len(r) >= Len(shp_path) /\ SubSeq(r, 1, Len(shp_path)) = shp_path)} |-> d[q]]

\* construct_qgis_functions.py:25-30: remove every file "<name>.*" of the
\* directory; the layer with that base name loses all its files.
delete_shapefile(d, shp_path) == [q \in DOMAIN d \ {shp_path} |-> d[q]]

\* d with layer content written at path.
write_layer(d, path, layer) == [q \in DOMAIN d \cup {path} |-> IF q = path THEN layer ELSE d[q]]

\* =================================================== the service wrappers
\* construct_qgis_functions.py: every wrapper that names its output with
\* generate_save_path and runs one algorithm of the processing service.
\* tag is the generate_save_path prefix; checked says whether the wrapper
\* tests the result of the call (run_processing_algorithm) or calls
\* processing.run and ignores it.
WrapperTable ==
    { [name |-> "reproject_shapefile", tag |-> "p", checked |-> TRUE],
      [name |-> "convert_line_to_polygon", tag |-> "poly", checked |-> TRUE],
      [name |-> "split_lines", tag |-> "roads", checked |-> TRUE],
      [name |-> "calc_line_centroid", tag |-> "c", checked |-> TRUE],
      [name |-> "join_by_attribute", tag |-> "j", checked |-> TRUE],
      [name |-> "extract_nonull_attribute", tag |-> "uni", checked |-> TRUE],
      [name |-> "extract_by_value", tag |-> "flt", checked |-> TRUE],
      [name |-> "extract_whithindistance", tag |-> "distance", checked |-> TRUE],
      [name |-> "dissolve_shapefile", tag |-> "d", checked |-> TRUE],
      [name |-> "split_line_with_line", tag |-> "s", checked |-> TRUE],
      [name |-> "specific_vertices", tag |-> "v", checked |-> TRUE],
      [name |-> "calc_intersection", tag |-> "intersection", checked |-> TRUE],
      [name |-> "calc_line_intersection", tag |-> "int", checked |-> TRUE],
      [name |-> "merge_layers", tag |-> "m", checked |-> TRUE],
      [name |-> "raster_to_vector", tag |-> "r2v", checked |-> TRUE],
      [name |-> "polygon_to_line", tag |-> "p2l", checked |-> FALSE],
      [name |-> "create_buffer", tag |-> "b", checked |-> TRUE],
      [name |-> "multipart_to_singleparts", tag |-> "m2s", checked |-> TRUE],
      [name |-> "simplify_shapefile", tag |-> "sp", checked |-> TRUE],
      [name |-> "smooth_shapefile", tag |-> "sm", checked |-> TRUE],
      [name |-> "all_vertices", tag |-> "v", checked |-> TRUE],
      [name |-> "shortest_line", tag |-> "sl", checked |-> TRUE],
      [name |-> "fix_geometry", tag |-> "f", checked |-> TRUE],
      [name |-> "explode_line", tag |-> "e", checked |-> TRUE] }

Wrappers == {w.name : w \in WrapperTable}

WrapperTag(name) == (CHOOSE w \in WrapperTable : w.name = name).tag

WrapperChecked(name) == (CHOOSE w \in WrapperTable : w.name = name).checked

\* The wrappers whose algorithm reads a second layer.
TwoInputWrappers ==
    {"split_lines", "join_by_attribute", "extract_whithindistance", "split_line_with_line",
     "calc_intersection", "calc_line_intersection", "merge_layers", "shortest_line"}

\* The layer paths the algorithm is given.
wrapper_inputs(name, a, b) == IF name \in TwoInputWrappers THEN <<a, b>> ELSE <<a>>

\* The path the output is named after: the first argument, except that
\* split_lines names its output after feature_path (its second argument).
wrapper_origin(name, a, b) == IF name = "split_lines" THEN b ELSE a

\* A stamping that copies the id of the feature each feature derives from.
reindex_feature_src(layer, field_name) ==
    [exts |-> layer.exts, fields |-> layer.fields \cup {field_name},
     feats |-> [i \in DOMAIN layer.feats |-> [layer.feats[i] EXCEPT ![field_name] = layer.feats[i].src]]]

\* construct_qgis_functions.py:54-67: make sure the field exists, then set
\* it on every feature to the feature's own id.
reindex_feature(layer, field_name) ==
    [exts |-> layer.exts, fields |-> layer.fields \cup {field_name},
     feats |-> [i \in DOMAIN layer.feats |-> [layer.feats[i] EXCEPT ![field_name] = i - 1]]]

\* construct_qgis_functions.py:204-211: native:createspatialindex writes the
\* .qix sidecar of a layer it can read and reports an error otherwise.
create_spatial_index(d, feature_path) ==
    IF path_exists(d, feature_path) THEN [d EXCEPT ![feature_path].exts = @ \cup {"qix"}] ELSE d

\* The value a wrapper returns: the output path, or "" when the wrapper
\* found the call to have failed.
wrapper_return(name, out, good) == IF good \/ ~WrapperChecked(name) THEN out ELSE Sentinel

\* The errors a wrapper logs for its own service call.
wrapper_logged(name, good) == IF good \/ ~WrapperChecked(name) THEN 0 ELSE 1

\* One wrapper call: name the output after origin, delete a layer already at
\* the output path, (extract_whithindistance: index both inputs,) run the
\* algorithm, which writes layer when svc_ok and every input is a readable
\* layer and reports an error otherwise, (split_lines: stamp monoid,) return.
run_wrapper(name, d, origin, inputs, svc_ok, layer) ==
    LET out == generate_save_path(origin, WrapperTag(name))
        cleared == IF path_exists(d, out) THEN delete_shapefile(d, out) ELSE d
        indexed == IF name = "extract_whithindistance"
                   THEN create_spatial_index(create_spatial_index(cleared, inputs[1]), inputs[2])
                   ELSE cleared
        index_errors == IF name = "extract_whithindistance"
                        THEN Cardinality({i \in {1, 2} : ~path_exists(cleared, inputs[i])})
                        ELSE 0
        good == svc_ok /\ \A i \in DOMAIN inputs : path_exists(indexed, inputs[i])
        stamped == IF name = "split_lines" THEN reindex_feature(layer, "monoid") ELSE layer
    IN [disk |-> IF good THEN write_layer(indexed, out, stamped) ELSE indexed,
        out |-> out,
        good |-> good,
        ret |-> wrapper_return(name, out, good),
        logged |-> index_errors + wrapper_logged(name, good)]

\* What an algorithm this model does not look into writes: the features of
\* its first input.
copy_of(d, path) == IF path_exists(d, path) THEN Layer(d[path].fields, d[path].feats) ELSE Layer({}, <<>>)

\* A line layer handed to the pipeline: n features, each its own source,
\* with a monoid field (stamped by an earlier run) or without one.
InputLayer(n, has_monoid) ==
    Layer(IF has_monoid THEN {"monoid"} ELSE {},
          [i \in 1..n |-> Feature(i - 1, i - 1, IF has_monoid THEN i - 1 ELSE NULL, NULL, NULL)])

\* ------------------------------------------------ one wrapper on its own
InitWrapper ==
    /\ ws_pc = "call"
    /\ ws_wrapper \in Wrappers
    /\ ws_a \in {<<"natural">>, <<"result1">>, Sentinel}
    /\ ws_b = <<"water">>
    /\ ws_good = FALSE
    /\ ws_ret = NoPath
    /\ ws_logged = 0
    /\ \E stale \in BOOLEAN :
          disk = [q \in {<<"natural">>, <<"water">>}
                        \cup (IF stale THEN {generate_save_path(wrapper_origin(ws_wrapper, ws_a, ws_b), WrapperTag(ws_wrapper))} ELSE {})
                    |-> InputLayer(1, FALSE)]

\* A wrapper is called with (ws_a, ws_b); the service call succeeds or
\* reports an error.
CallWrapper ==
    /\ ws_pc = "call"
    /\ \E svc_ok \in BOOLEAN :
          LET r == run_wrapper(ws_wrapper, disk, wrapper_origin(ws_wrapper, ws_a, ws_b),
                               wrapper_inputs(ws_wrapper, ws_a, ws_b), svc_ok, copy_of(disk, ws_a))
          IN /\ disk' = r.disk
             /\ ws_good' = r.good
             /\ ws_ret' = r.ret
             /\ ws_logged' = r.logged
    /\ ws_pc' = "returned"
    /\ UNCHANGED <<ws_wrapper, ws_a, ws_b>>
    /\ UNCHANGED wsOthers

NextWrapper == CallWrapper

\* C9 (as claimed): whenever the service call of a wrapper fails, the wrapper
\* logs an error and returns the sentinel "".
C9_FailureYieldsSentinel ==
    (ws_pc = "returned" /\ ~ws_good) => (ws_ret = Sentinel /\ ws_logged >= 1)

\* ================================================= the processing service
\* Most features of the base road layer.
MaxBase == 2
\* Most fragments one split writes.
MaxSplit == 3
\* Most fragments one feature is cut into by a split.
MaxFrag == 2

\* The features at the positions K of feats, in order.
SubSeqBy(feats, K) ==
    LET F[i \in 0..Len(feats)] ==
            IF i = 0 THEN <<>>
            ELSE IF i \in K THEN Append(F[i - 1], feats[i]) ELSE F[i - 1]
    IN F[Len(feats)]

\* native:splitwithlines with the fragment counts cuts: feature i of the input
\* becomes cuts[i] consecutive fragments that copy its attributes.
fragments(feats, cuts) ==
    LET F[i \in 0..Len(feats)] ==
            IF i = 0 THEN <<>>
            ELSE F[i - 1] \o [k \in 1..cuts[i] |-> [feats[i] EXCEPT !.src = i - 1]]
        out == F[Len(feats)]
    IN [j \in DOMAIN out |-> [out[j] EXCEPT !.geom = j - 1]]

RECURSIVE SumTo(_, _)
SumTo(f, n) == IF n = 0 THEN 0 ELSE f[n] + SumTo(f, n - 1)

\* Every layer native:splitwithlines can write for the input layer: the cutting
\* lines decide how many fragments each feature falls into.
split_outputs(layer) ==
    {Layer(layer.fields, fragments(layer.feats, cuts)) :
        cuts \in {c \in [DOMAIN layer.feats -> 1..MaxFrag] : SumTo(c, Len(layer.feats)) <= MaxSplit}}

\* native:centroids: one point per feature, with the feature's attributes.
centroids(layer) ==
    Layer(layer.fields, [i \in DOMAIN layer.feats |-> [layer.feats[i] EXCEPT !.src = i - 1]])

\* Every layer native:extractwithindistance can write: the features of the
\* input that lie within the distance of the reference layer, in input order.
within_distance_outputs(layer) ==
    {Layer(layer.fields, SubSeqBy(layer.feats, K)) : K \in SUBSET DOMAIN layer.feats}

\* native:joinattributestable with METHOD 1 and DISCARD_NONMATCHING False:
\* every feature of the input is kept and takes the attributes of the first
\* feature of the second layer with the same value of field; FID_2, the second
\* layer's own id column, is NULL on a feature without a match.
join_attributes_table(layer, layer_2, field) ==
    LET match(f) == {j \in DOMAIN layer_2.feats : layer_2.feats[j][field] = f[field] /\ f[field] # NULL}
        first(f) == CHOOSE j \in match(f) : \A k \in match(f) : j <= k
    IN Layer(layer.fields \cup {"FID_2"},
             [i \in DOMAIN layer.feats |->
                [layer.feats[i] EXCEPT !.FID_2 = IF match(layer.feats[i]) = {} THEN NULL ELSE first(layer.feats[i]) - 1]])

\* construct_qgis_functions.py:257: 'OPERATOR' : 8.
nonull_operator == 8

\* native:extractbyattribute: the features whose field stands to value in the
\* relation the operator code names.  The algorithm's codes are 0 =, 1 !=,
\* 2 >, 3 >=, 4 <, 5 <=, 6 begins with, 7 contains, 8 is null, 9 is not null,
\* 10 does not contain; attribute values here are integers or NULL.
extract_by_attribute(layer, field, operator, value) ==
    LET holds(f) == CASE operator = 0 -> f[field] = value
                      [] operator = 1 -> f[field] # value
                      [] operator = 2 -> f[field] # NULL /\ f[field] > value
                      [] operator = 3 -> f[field] # NULL /\ f[field] >= value
                      [] operator = 4 -> f[field] # NULL /\ f[field] < value
                      [] operator = 5 -> f[field] # NULL /\ f[field] <= value
                      [] operator = 8 -> f[field] = NULL
                      [] operator = 9 -> f[field] # NULL
                      [] OTHER -> FALSE
    IN Layer(layer.fields, SubSeqBy(layer.feats, {i \in DOMAIN layer.feats : holds(layer.feats[i])}))

\* ========================================================= merge_shapefile
BaseRoad == <<"result1">>
NaturalPath == <<"natural">>
WaterPath == <<"water">>

LocNames ==
    {"splited_road_path", "intersection_with_feature_path", "splited_road_centroid_path",
     "distance_extracted_centroid_path", "joined_splited_road_path", "filtered_splited_road_path",
     "dissolved_splited_road_path", "splited_dissove_path", "splited_with_feature_path", "endpoint_path",
     "point_intersection_path", "remained_road_path", "merged_path", "dissolved_path", "merged_vector_path"}

\* The layer at path, or an empty layer when there is none to read.
read_layer(d, path) == IF path_exists(d, path) THEN d[path] ELSE Layer({}, <<>>)

Call(op, args) == [op |-> op, args |-> args]

InitPipeline ==
    /\ pc = "split_lines"
    /\ loc = [v \in LocNames |-> NoPath]
    /\ calls = <<>>
    /\ errors = 0
    /\ pl_exclude_list = <<>>
    /\ \E n \in 1..MaxBase, has_monoid \in BOOLEAN, stale \in BOOLEAN :
          disk = [q \in {BaseRoad, NaturalPath, WaterPath}
                        \cup (IF stale THEN {generate_save_path(NaturalPath, "roads")} ELSE {})
                    |-> IF q = BaseRoad THEN InputLayer(n, has_monoid) ELSE InputLayer(1, FALSE)]

\* One statement "var = wrapper(inputs)": the wrapper runs whole, its result
\* is bound to var and control moves to the next statement.
WrapperStep(label, next, var, name, origin, inputs, layers) ==
    /\ pc = label
    /\ \E svc_ok \in BOOLEAN, layer \in layers :
          LET r == run_wrapper(name, disk, origin, inputs, svc_ok, layer)
          IN /\ disk' = r.disk
             /\ loc' = [loc EXCEPT ![var] = r.ret]
             /\ errors' = errors + r.logged
    /\ calls' = Append(calls, Call(name, inputs))
    /\ pc' = next
    /\ UNCHANGED pl_exclude_list
    /\ UNCHANGED plOthers

\* A delete statement that is stepped over.
DeleteStep_skip(label, next, path) ==
    /\ pc = label
    /\ pc' = next
    /\ UNCHANGED <<loc, calls, errors, pl_exclude_list, disk>>
    /\ UNCHANGED plOthers

\* One statement "delete_shapefile(path)"; os.listdir raises on a path
\* without a directory.
DeleteStep(label, next, path) ==
    /\ pc = label
    /\ calls' = Append(calls, Call("delete_shapefile", <<path>>))
    /\ IF listdir_raises(path)
       THEN /\ pc' = "raised"
            /\ UNCHANGED disk
       ELSE /\ pc' = next
            /\ disk' = delete_shapefile(disk, path)
    /\ UNCHANGED <<loc, errors, pl_exclude_list>>
    /\ UNCHANGED plOthers

\* split_LCZ.py:277: splited_road_path = split_lines(base_road_filepath, natural_path).
SplitLines ==
    WrapperStep("split_lines", "calc_line_intersection", "splited_road_path", "split_lines",
                NaturalPath, <<BaseRoad, NaturalPath>>, split_outputs(read_layer(disk, BaseRoad)))

\* split_LCZ.py:279: the points where the split road meets the boundary.
CalcLineIntersection ==
    WrapperStep("calc_line_intersection", "calc_line_centroid", "intersection_with_feature_path",
                "calc_line_intersection", loc["splited_road_path"], <<loc["splited_road_path"], NaturalPath>>,
                {Layer({}, <<>>)})

\* split_LCZ.py:147 (filter_lcz_vectors).
CalcLineCentroid ==
    WrapperStep("calc_line_centroid", "extract_whithindistance", "splited_road_centroid_path",
                "calc_line_centroid", loc["splited_road_path"], <<loc["splited_road_path"]>>,
                {centroids(read_layer(disk, loc["splited_road_path"]))})

\* split_LCZ.py:149: the centroids within distance 20 of the feature layer.
ExtractWithinDistance ==
    WrapperStep("extract_whithindistance", "join_by_attribute", "distance_extracted_centroid_path",
                "extract_whithindistance", loc["splited_road_centroid_path"],
                <<loc["splited_road_centroid_path"], NaturalPath>>,
                within_distance_outputs(read_layer(disk, loc["splited_road_centroid_path"])))

\* split_LCZ.py:151: left join of the split road with the selected centroids on monoid.
JoinByAttribute ==
    WrapperStep("join_by_attribute", "extract_nonull_attribute", "joined_splited_road_path",
                "join_by_attribute", loc["splited_road_path"],
                <<loc["splited_road_path"], loc["distance_extracted_centroid_path"]>>,
                {join_attributes_table(read_layer(disk, loc["splited_road_path"]),
                                       read_layer(disk, loc["distance_extracted_centroid_path"]), "monoid")})

\* split_LCZ.py:153: extract_nonull_attribute(joined_splited_road_path, "FID_2").
ExtractNonullAttribute ==
    WrapperStep("extract_nonull_attribute", "delete_splited_road", "filtered_splited_road_path",
                "extract_nonull_attribute", loc["joined_splited_road_path"], <<loc["joined_splited_road_path"]>>,
                {extract_by_attribute(read_layer(disk, loc["joined_splited_road_path"]), "FID_2", nonull_operator, NULL)})

\* split_LCZ.py:155-158.
DeleteSplitedRoad == DeleteStep("delete_splited_road", "delete_centroid", loc["splited_road_path"])

DeleteCentroid == DeleteStep("delete_centroid", "delete_distance", loc["splited_road_centroid_path"])

DeleteDistance == DeleteStep("delete_distance", "delete_joined", loc["distance_extracted_centroid_path"])

\* split_LCZ.py:158-159: the last delete, then filter_lcz_vectors returns
\* filtered_splited_road_path to merge_shapefile.
DeleteJoined == DeleteStep("delete_joined", "post_process_road", loc["joined_splited_road_path"])

\* merge_shapefile up to the return of filter_lcz_vectors.
NextFilter ==
    \/ SplitLines
    \/ CalcLineIntersection
    \/ CalcLineCentroid
    \/ ExtractWithinDistance
    \/ JoinByAttribute
    \/ ExtractNonullAttribute
    \/ DeleteSplitedRoad
    \/ DeleteCentroid
    \/ DeleteDistance
    \/ DeleteJoined

\* ------------------------------------------- merge_shapefile: claims
\* The split road layer written by split_lines is on disk.
SplitRoadOnDisk ==
    /\ pc \in {"calc_line_intersection", "calc_line_centroid", "extract_whithindistance",
               "join_by_attribute", "extract_nonull_attribute", "delete_splited_road"}
    /\ loc["splited_road_path"] # Sentinel

\* C6: after split_lines succeeds every fragment of its output carries, in
\* monoid, its own feature id in that output (so the values are pairwise
\* distinct), whatever id or monoid the road it was cut from had.
C6_MonoidIsOwnId ==
    SplitRoadOnDisk =>
        LET layer == disk[loc["splited_road_path"]]
        IN /\ "monoid" \in layer.fields
           /\ \A i \in DOMAIN layer.feats : layer.feats[i].monoid = i - 1
           /\ \A i, j \in DOMAIN layer.feats : layer.feats[i].monoid = layer.feats[j].monoid => i = j

\* C6 witness: split_lines has returned a layer in which some fragment's id
\* differs from the id (and the monoid) of the road it was cut from.
C6_Witness ==
    /\ pc = "calc_line_intersection"
    /\ loc["splited_road_path"] = generate_save_path(NaturalPath, "roads")
    /\ "monoid" \in disk[BaseRoad].fields
    /\ \E i \in DOMAIN disk[loc["splited_road_path"]].feats :
          disk[loc["splited_road_path"]].feats[i].src # i - 1

\* Every step of filter_lcz_vectors has returned a path and no layer has been
\* deleted yet.
FilterStepsDone ==
    /\ pc = "delete_splited_road"
    /\ \A v \in {"splited_road_path", "splited_road_centroid_path", "distance_extracted_centroid_path",
                 "joined_splited_road_path", "filtered_splited_road_path"} : loc[v] # Sentinel

\* The fragments of the split layer whose monoid is the monoid of a selected centroid.
NearBoundary(split, selected) ==
    SubSeqBy(split.feats, {i \in DOMAIN split.feats :
                              \E j \in DOMAIN selected.feats : selected.feats[j].monoid = split.feats[i].monoid})

GeomColumn(feats) == [i \in DOMAIN feats |-> feats[i].geom]

\* C7 (as claimed): the layer filter_lcz_vectors returns holds exactly the
\* fragments whose monoid is that of a centroid selected within distance 20,
\* each once; with no centroid selected it is an empty layer, and its path is
\* returned.
C7_FilterKeepsNearBoundary ==
    FilterStepsDone =>
        GeomColumn(disk[loc["filtered_splited_road_path"]].feats)
            = GeomColumn(NearBoundary(disk[loc["splited_road_path"]], disk[loc["distance_extracted_centroid_path"]]))

\* Some step of the pipeline has returned the sentinel.
SomeStepFailed == \E v \in DOMAIN loc : loc[v] = Sentinel

\* C10 (as claimed): after a step returned the sentinel "" no wrapper and no
\* delete_shapefile is handed the sentinel as a path, and filter_lcz_vectors
\* returns the sentinel to merge_shapefile.
C10_StageAbortsOnFailure ==
    /\ \A k \in DOMAIN calls : Sentinel \notin SetOf(calls[k].args)
    /\ (pc = "post_process_road" /\ SomeStepFailed) => loc["filtered_splited_road_path"] = Sentinel

\* The intermediate layers of filter_lcz_vectors.
FilterIntermediates ==
    {loc["splited_road_path"], loc["splited_road_centroid_path"],
     loc["distance_extracted_centroid_path"], loc["joined_splited_road_path"]}

\* A delete statement of filter_lcz_vectors is about to run in a run without failure.
FilterDeleting ==
    pc \in {"delete_splited_road", "delete_centroid", "delete_distance", "delete_joined"} /\ errors = 0

\* C13: when filter_lcz_vectors returns after a failure-free run its four
\* intermediate layers are gone while the feature layer and the filtered
\* output are on disk with all their files, and no delete statement of the
\* stage changes either of the two.
C13_FilterCleanup ==
    /\ []((pc = "post_process_road" /\ errors = 0)
            => /\ \A q \in FilterIntermediates : q \notin DOMAIN disk
               /\ path_exists(disk, NaturalPath) /\ ShapefileExts \subseteq disk[NaturalPath].exts
               /\ path_exists(disk, loc["filtered_splited_road_path"])
               /\ ShapefileExts \subseteq disk[loc["filtered_splited_road_path"]].exts)
    /\ [][FilterDeleting
            => /\ pc' # "raised"
               /\ {NaturalPath, loc["filtered_splited_road_path"]} \subseteq (DOMAIN disk \cap DOMAIN disk')
               /\ disk'[NaturalPath] = disk[NaturalPath]
               /\ disk'[loc["filtered_splited_road_path"]] = disk[loc["filtered_splited_road_path"]]]_vars

\* C13 witness: filter_lcz_vectors has returned a layer with a fragment in it
\* after a failure-free run that indexed the feature layer.
C13_Witness ==
    /\ pc = "post_process_road"
    /\ errors = 0
    /\ loc["filtered_splited_road_path"] = <<"natural", "roads", "j", "uni">>
    /\ Len(disk[loc["filtered_splited_road_path"]].feats) >= 1
    /\ "qix" \in disk[NaturalPath].exts
    /\ Len(calls) = 10

\* ======================================================= calc_remained_road
\* Largest FID / exclusion value drawn for the merge-scan.
MaxVal == 2
\* Most features in the scanned layer.
MaxN == 3
\* Longest exclusion list handed in directly.
MaxExcl == 2
\* Longest output of one exclusion rule.
MaxRule == 2

\* A sort that keeps duplicates of the smallest element apart (sorted on a list).
RECURSIVE sorted(_)
sorted(S) ==
    IF S = {} THEN <<>>
    ELSE LET m == CHOOSE x \in S : \A y \in S : x <= y
         IN <<m>> \o sorted(S \ {m})

\* Concatenation without deduplication, ordered by insertion of the smaller head.
RECURSIVE sorted_list(_)
sorted_list(s) ==
    IF Len(s) = 0 THEN <<>>
    ELSE LET i == CHOOSE i \in DOMAIN s : \A j \in DOMAIN s : s[i] <= s[j]
         IN <<s[i]>> \o sorted_list(SubSeq(s, 1, i - 1) \o SubSeq(s, i + 1, Len(s)))

\* The union step without set(): sorted(bial + single).
union_exclude_nodedup(bial, single) == sorted_list(bial \o single)

\* split_LCZ.py:261: sorted(list(set(bial) | set(single))).
union_exclude(bial, single) == sorted(SetOf(bial) \cup SetOf(single))

\* The cursor step without the step back at the end of the list.
next_scan_index_nosat(scan_index, n) == scan_index + 1

\* The cursor step that never advances.
next_scan_index_stuck(scan_index, n) == scan_index

\* split_LCZ.py:218-220: advance the cursor, stepping back from len(exclude_list).
next_scan_index(scan_index, n) == IF scan_index + 1 = n THEN scan_index ELSE scan_index + 1

\* The emptiness test that never short-circuits.
exclude_is_empty_never(exclude_list) == FALSE

\* split_LCZ.py:205: len(exclude_list) == 0.
exclude_is_empty(exclude_list) == Len(exclude_list) = 0

\* split_LCZ.py:224-225: materialize the features whose id is in remained_list.
materialize(layer, remained_list) ==
    LET keep == {i \in DOMAIN layer.feats : (i - 1) \in SetOf(remained_list)}
        F[i \in 0..Len(layer.feats)] ==
            IF i = 0 THEN <<>>
            ELSE IF i \in keep THEN Append(F[i - 1], layer.feats[i]) ELSE F[i - 1]
    IN [exts |-> ShapefileExts, fields |-> layer.fields, feats |-> F[Len(layer.feats)]]

\* The layer mess_up_splited_feature leaves: FID is the only field.
FidLayer(fids) == Layer({"FID"}, [i \in DOMAIN fids |-> Feature(i - 1, i - 1, NULL, NULL, fids[i])])

\* The FID column of a layer in iteration order.
FidColumn(layer) == [i \in DOMAIN layer.feats |-> layer.feats[i].FID]

RemainInput == <<"splited">>

\* The positional stamp 0..n-1.
Stamped(n) == [i \in 1..n |-> i - 1]

InitRemain ==
    /\ rr_path = RemainInput
    /\ \/ /\ rr_pc = "union"
          /\ rr_caller = "post_process_road"
          /\ rr_bial \in SeqsUpTo(0..MaxVal, MaxRule)
          /\ rr_single \in SeqsUpTo(0..MaxVal, MaxRule)
          /\ rr_fids \in {Stamped(n) : n \in 0..MaxN}
          /\ rr_exclude = <<>>
          /\ disk = [q \in {RemainInput} |-> FidLayer(rr_fids)]
       \/ /\ rr_pc = "call"
          /\ rr_caller = "direct"
          /\ rr_bial = <<>>
          /\ rr_single = <<>>
          /\ rr_fids \in SeqsUpTo(0..MaxVal, MaxN)
          /\ rr_exclude \in SeqsUpTo(0..MaxVal, MaxExcl)
          /\ \E stale \in BOOLEAN :
                disk = [q \in {RemainInput} \cup (IF stale THEN {generate_save_path(RemainInput, "selected")} ELSE {})
                          |-> IF q = RemainInput THEN FidLayer(rr_fids) ELSE FidLayer(<<>>)]
    /\ rr_scan_index = 0
    /\ rr_remained = <<>>
    /\ rr_k = 0
    /\ rr_branch = "none"
    /\ rr_ret = NoPath
    /\ rr_warnings = 0
    /\ rr_errors = 0
    /\ rr_disk0 = disk

\* split_LCZ.py:261: post_process_road builds exclude_list from the two rule
\* outputs and calls calc_remained_road with it.
PostProcessUnion ==
    /\ rr_pc = "union"
    /\ rr_exclude' = union_exclude(rr_bial, rr_single)
    /\ rr_pc' = "call"
    /\ UNCHANGED <<rr_caller, rr_path, rr_fids, rr_bial, rr_single, rr_scan_index, rr_remained, rr_k, rr_branch, rr_ret, rr_warnings, rr_errors, rr_disk0, disk>>
    /\ UNCHANGED rrOthers

\* split_LCZ.py:204-212: open the layer; an empty exclude_list returns the
\* input path at once.
CalcRemainedEnter ==
    /\ rr_pc = "call"
    /\ IF exclude_is_empty(rr_exclude)
       THEN /\ rr_warnings' = rr_warnings + 1
            /\ rr_ret' = rr_path
            /\ rr_pc' = "returned"
       ELSE /\ rr_pc' = "loop"
            /\ UNCHANGED <<rr_warnings, rr_ret>>
    /\ rr_remained' = <<>>
    /\ rr_scan_index' = 0
    /\ UNCHANGED <<rr_caller, rr_path, rr_fids, rr_bial, rr_single, rr_exclude, rr_k, rr_branch, rr_errors, rr_disk0, disk>>
    /\ UNCHANGED rrOthers

\* split_LCZ.py:213-222: one iteration of the merge-scan.  Reading
\* exclude_list[scan_index] outside the list raises IndexError.
CalcRemainedRow ==
    /\ rr_pc = "loop"
    /\ rr_k < Len(rr_fids)
    /\ LET current_fid == rr_fids[rr_k + 1]
       IN IF (rr_scan_index + 1) \notin DOMAIN rr_exclude
          THEN /\ rr_pc' = "raised"
               /\ UNCHANGED <<rr_remained, rr_scan_index, rr_k, rr_branch>>
          ELSE /\ rr_pc' = "loop"
               /\ rr_k' = rr_k + 1
               /\ IF current_fid < rr_exclude[rr_scan_index + 1]
                  THEN /\ rr_remained' = Append(rr_remained, current_fid)
                       /\ rr_branch' = "lt"
                       /\ UNCHANGED rr_scan_index
                  ELSE IF current_fid = rr_exclude[rr_scan_index + 1]
                  THEN /\ rr_scan_index' = next_scan_index(rr_scan_index, Len(rr_exclude))
                       /\ rr_branch' = "eq"
                       /\ UNCHANGED rr_remained
                  ELSE /\ rr_remained' = Append(rr_remained, current_fid)
                       /\ rr_branch' = "gt"
                       /\ UNCHANGED rr_scan_index
    /\ UNCHANGED <<rr_caller, rr_path, rr_fids, rr_bial, rr_single, rr_exclude, rr_ret, rr_warnings, rr_errors, rr_disk0, disk>>
    /\ UNCHANGED rrOthers

\* split_LCZ.py:224-244: materialize the kept features, delete a layer already
\* at <name>_selected.shp, write the new one; a failed write returns "".
CalcRemainedExport ==
    /\ rr_pc = "loop"
    /\ rr_k = Len(rr_fids)
    /\ LET output_layer == materialize(disk[rr_path], rr_remained)
           output_path == generate_save_path(rr_path, "selected")
           cleared == IF path_exists(disk, output_path) THEN delete_shapefile(disk, output_path) ELSE disk
       IN \E write_ok \in BOOLEAN :
            IF write_ok
            THEN /\ disk' = write_layer(cleared, output_path, output_layer)
                 /\ rr_ret' = output_path
                 /\ UNCHANGED rr_errors
            ELSE /\ disk' = cleared
                 /\ rr_ret' = Sentinel
                 /\ rr_errors' = rr_errors + 1
    /\ rr_pc' = "returned"
    /\ UNCHANGED <<rr_caller, rr_path, rr_fids, rr_bial, rr_single, rr_exclude, rr_scan_index, rr_remained, rr_k, rr_branch, rr_warnings, rr_disk0>>
    /\ UNCHANGED rrOthers

NextRemain == PostProcessUnion \/ CalcRemainedEnter \/ CalcRemainedRow \/ CalcRemainedExport

\* ------------------------------------------- calc_remained_road: claims
StrictlyIncreasing(s) == \A i \in 1..(Len(s) - 1) : s[i] < s[i + 1]

\* The elements of fids that are not in excl, in the order of fids.
NotExcluded(fids, excl) ==
    LET F[i \in 0..Len(fids)] ==
            IF i = 0 THEN <<>>
            ELSE IF fids[i] \in SetOf(excl) THEN F[i - 1] ELSE Append(F[i - 1], fids[i])
    IN F[Len(fids)]

\* The merge-scan has consumed every feature.
ScanFinished == (rr_pc = "loop" /\ rr_k = Len(rr_fids)) \/ (rr_pc = "returned" /\ ~exclude_is_empty(rr_exclude))

\* C1: with FIDs 0..N-1 in iteration order and a non-empty strictly increasing
\* exclusion sequence, the remained list is exactly the FIDs not excluded, in
\* the original order.
C1_RemainedExact ==
    (ScanFinished /\ rr_fids = Stamped(Len(rr_fids)) /\ Len(rr_exclude) > 0 /\ StrictlyIncreasing(rr_exclude))
        => rr_remained = NotExcluded(rr_fids, rr_exclude)

\* C1 witness: a finished scan of 0..N-1 that dropped two FIDs and kept another.
C1_Witness ==
    /\ rr_pc = "returned"
    /\ rr_fids = Stamped(Len(rr_fids))
    /\ Len(rr_exclude) >= 2
    /\ StrictlyIncreasing(rr_exclude)
    /\ SetOf(rr_exclude) \subseteq SetOf(rr_fids)
    /\ Len(rr_remained) >= 1
    /\ rr_ret = generate_save_path(rr_path, "selected")

\* C4: the exclusion sequence post_process_road hands to calc_remained_road is
\* strictly increasing and holds exactly the FIDs of the two rule outputs.
C4_ExclusionSortedUnion ==
    (rr_caller = "post_process_road" /\ rr_pc # "union")
        => /\ StrictlyIncreasing(rr_exclude)
           /\ SetOf(rr_exclude) = SetOf(rr_bial) \cup SetOf(rr_single)

\* C4 witness: rule outputs out of order and with a FID in common were handed over.
C4_Witness ==
    /\ rr_caller = "post_process_road"
    /\ rr_pc = "call"
    /\ ~IsOrdered(rr_bial \o rr_single)
    /\ SetOf(rr_bial) \cap SetOf(rr_single) # {}
    /\ Len(rr_exclude) >= 2

\* C5: with an empty exclusion list calc_remained_road returns the input path
\* after one warning, scans nothing and leaves the disk as it was at the call.
C5_EmptyExclusionIdentity ==
    (rr_pc = "returned" /\ Len(rr_exclude) = 0)
        => /\ rr_ret = rr_path
           /\ disk = rr_disk0
           /\ rr_warnings = 1
           /\ rr_k = 0
           /\ rr_remained = <<>>

\* C5 witness: the short-circuit was taken on a layer with features while a
\* layer sat at the export destination.
C5_Witness ==
    /\ rr_pc = "returned"
    /\ Len(rr_exclude) = 0
    /\ Len(rr_fids) > 0
    /\ path_exists(disk, generate_save_path(rr_path, "selected"))
    /\ rr_ret = rr_path

\* C17: while calc_remained_road scans with a non-empty exclusion list the
\* cursor stays within 0 .. len(exclude_list) - 1, so exclude_list[scan_index]
\* is always inside the list and the scan never raises, for sorted and
\* unsorted FIDs alike; the cursor moves only on the equal branch, by one
\* step forward, and stays when it stands on the last position.
C17_CursorInBounds ==
    /\ []((rr_pc \in {"loop", "returned", "raised"} /\ ~exclude_is_empty(rr_exclude))
            => /\ 0 <= rr_scan_index /\ rr_scan_index <= Len(rr_exclude) - 1
               /\ rr_pc # "raised")
    /\ [][(rr_pc = "loop" /\ rr_pc' = "loop")
            => /\ rr_scan_index' >= rr_scan_index
               /\ rr_scan_index' # rr_scan_index
                    => /\ rr_branch' = "eq"
                       /\ rr_scan_index' = rr_scan_index + 1
               /\ (rr_branch' = "eq" /\ rr_scan_index' = rr_scan_index)
                    => rr_scan_index = Len(rr_exclude) - 1]_vars

\* C17 witness: the cursor stood on the last position of a list of two when
\* an equal FID came, stayed there, and a later FID was compared against it;
\* the FIDs were not in ascending order.
C17_Witness ==
    /\ rr_pc = "loop"
    /\ Len(rr_exclude) = 2
    /\ rr_scan_index = 1
    /\ rr_k = 3
    /\ rr_fids[1] = rr_exclude[1]
    /\ rr_fids[2] = rr_exclude[2]
    /\ ~IsOrdered(rr_fids)

\* The FIDs are 0..N-1 in order and the non-empty exclusion list is a sorted
\* duplicate-free selection of them; the scan has looked at a feature.
GapFreeScan ==
    /\ rr_pc \in {"loop", "returned"}
    /\ rr_k >= 1
    /\ rr_fids = Stamped(Len(rr_fids))
    /\ ~exclude_is_empty(rr_exclude)
    /\ StrictlyIncreasing(rr_exclude)
    /\ SetOf(rr_exclude) \subseteq SetOf(rr_fids)

\* C18 (as claimed): on a gap-free scan the branch "current FID > exclusion
\* cursor value" is never taken.
C18_GtBranchNeverTaken == GapFreeScan => rr_branch # "gt"

\* C18 (amended): on a gap-free scan the branch "current FID > exclusion
\* cursor value" is taken exactly by the FIDs greater than the last exclusion
\* value, which come after the cursor has stopped on the last position; such
\* a FID is kept and the cursor stays.  No FID below the last exclusion value
\* takes the branch.
C18_GtBranchOnlyPastLast ==
    GapFreeScan
        => /\ rr_branch = "gt" <=> rr_fids[rr_k] > rr_exclude[Len(rr_exclude)]
           /\ rr_branch = "gt"
                => /\ rr_scan_index = Len(rr_exclude) - 1
                   /\ Len(rr_remained) >= 1
                   /\ rr_remained[Len(rr_remained)] = rr_fids[rr_k]

\* C18 witness: FIDs 0, 1, 2 with an exclusion list ending below 2: FID 2
\* took the greater-than branch after the cursor was exhausted.
C18_Witness ==
    /\ GapFreeScan
    /\ rr_branch = "gt"
    /\ rr_k = 3
    /\ rr_exclude[Len(rr_exclude)] < 2

\* ============================== delete_shapefile and rename_shapefile
\* A file name is the sequence of its pieces, "." being a piece of its own:
\* <<"road", "_c", ".", "shp">> is road_c.shp.  No piece other than "." holds
\* a dot and no two pieces that can stand at the same place begin alike, so a
\* name begins with another exactly when its pieces do.
FileNames ==
    { <<"road", ".", "shp">>, <<"road", ".", "dbf">>, <<"road", ".", "shp", ".", "xml">>,
      <<"road", "_c", ".", "shp">>, <<"road", "_c", ".", "dbf">>,
      <<"road", "_j", "_uni", ".", "shp">>, <<"other", ".", "shp">> }

\* The layer paths handed in (their file names; every path of the pipeline
\* is joined to a directory).
LayerFiles == { <<"road", ".", "shp">>, <<"road", "_c", ".", "shp">> }

\* The new names handed to rename_shapefile.
NewNames == { <<"boundary">>, <<"road", "_c">> }

\* name.split('.')[0]: the pieces before the first dot.
split_dot_first(name) ==
    LET dots == {i \in DOMAIN name : name[i] = "."}
    IN IF dots = {} THEN name
       ELSE SubSeq(name, 1, (CHOOSE i \in dots : \A j \in dots : i <= j) - 1)

\* The match on the base name alone, without the dot.
shp_name_nodot(base_name) == split_dot_first(base_name)

\* construct_qgis_functions.py:27: os.path.basename(shp_path).split('.')[0] + '.'.
shp_name(base_name) == Append(split_dot_first(base_name), ".")

\* str.startswith.
startswith(file, prefix) == Len(file) >= Len(prefix) /\ SubSeq(file, 1, Len(prefix)) = prefix

InitFiles ==
    /\ fs_pc = "call"
    /\ fs_path \in LayerFiles
    /\ \/ fs_op = "delete_shapefile" /\ fs_new_name = <<>> /\ fs_posix = TRUE
       \/ fs_op = "rename_shapefile" /\ fs_new_name \in NewNames /\ fs_posix \in BOOLEAN
    /\ fs_files \in SUBSET FileNames
    /\ fs_files0 = fs_files
    /\ fs_todo = {}

\* construct_qgis_functions.py:28 / 21: os.listdir(shp_dir) lists the
\* directory once; the loop then goes through that list, in whatever order
\* the file system gave it.
ListDir ==
    /\ fs_pc = "call"
    /\ fs_todo' = fs_files
    /\ fs_pc' = "loop"
    /\ UNCHANGED <<fs_op, fs_path, fs_new_name, fs_posix, fs_files, fs_files0>>
    /\ UNCHANGED fsOthers

\* construct_qgis_functions.py:28-30: one iteration of delete_shapefile.
DeleteFile ==
    /\ fs_pc = "loop"
    /\ fs_op = "delete_shapefile"
    /\ \E file \in fs_todo :
          /\ fs_todo' = fs_todo \ {file}
          /\ fs_files' = IF startswith(file, shp_name(fs_path)) THEN fs_files \ {file} ELSE fs_files
    /\ UNCHANGED <<fs_pc, fs_op, fs_path, fs_new_name, fs_posix, fs_files0>>
    /\ UNCHANGED fsOthers

\* construct_qgis_functions.py:20-23: one iteration of rename_shapefile:
\* os.rename(<dir>/<file>, <dir>/<new_name>.), the same target for every file.
RenameFile ==
    /\ fs_pc = "loop"
    /\ fs_op = "rename_shapefile"
    /\ \E file \in fs_todo :
          LET target == Append(fs_new_name, ".")
          IN /\ fs_todo' = fs_todo \ {file}
             /\ IF ~startswith(file, shp_name(fs_path))
                THEN UNCHANGED <<fs_files, fs_pc>>
                ELSE IF target \in fs_files /\ ~fs_posix
                THEN /\ fs_pc' = "raised"
                     /\ UNCHANGED fs_files
                ELSE /\ fs_files' = (fs_files \ {file}) \cup {target}
                     /\ UNCHANGED fs_pc
    /\ UNCHANGED <<fs_op, fs_path, fs_new_name, fs_posix, fs_files0>>
    /\ UNCHANGED fsOthers

\* The loop is over and the function returns.
FilesReturn ==
    /\ fs_pc = "loop"
    /\ fs_todo = {}
    /\ fs_pc' = "returned"
    /\ UNCHANGED <<fs_op, fs_path, fs_new_name, fs_posix, fs_files, fs_files0, fs_todo>>
    /\ UNCHANGED fsOthers

NextFiles == ListDir \/ DeleteFile \/ RenameFile \/ FilesReturn

\* ------------------- delete_shapefile and rename_shapefile: claims
\* file is base.ext: it has the base name of the layer and then a dot.
SameBase(file, base) == "." \in SetOf(file) /\ split_dot_first(file) = base

\* C14 (as claimed): after rename_shapefile every file base.ext of the layer
\* has become new_name.ext, and the renamed layer has as many files as the
\* layer had.
C14_RenameKeepsSidecars ==
    (fs_pc = "returned" /\ fs_op = "rename_shapefile")
        => LET base == split_dot_first(fs_path)
               sidecars == {f \in fs_files0 : SameBase(f, base)}
               ext(f) == SubSeq(f, Len(base) + 1, Len(f))
           IN /\ \A f \in sidecars : (fs_new_name \o ext(f)) \in fs_files
              /\ Cardinality({f \in fs_files : SameBase(f, fs_new_name)}) >= Cardinality(sidecars)

\* C15: when delete_shapefile returns, the files gone are exactly the files
\* base.ext of the layer; every other file of the directory is still there,
\* road_c.* and road_j_uni.shp when road.shp is deleted among them, and no
\* file has appeared.
C15_DeleteExact ==
    (fs_pc = "returned" /\ fs_op = "delete_shapefile")
        => fs_files = {f \in fs_files0 : ~SameBase(f, split_dot_first(fs_path))}

\* C15 witness: road.shp was deleted with its sidecars (road.shp.xml too)
\* while road_c.shp and road_j_uni.shp stayed.
C15_Witness ==
    /\ fs_pc = "returned"
    /\ fs_op = "delete_shapefile"
    /\ fs_path = <<"road", ".", "shp">>
    /\ {<<"road", ".", "shp">>, <<"road", ".", "dbf">>, <<"road", ".", "shp", ".", "xml">>} \subseteq fs_files0
    /\ {<<"road", "_c", ".", "shp">>, <<"road", "_j", "_uni", ".", "shp">>} \subseteq fs_files
    /\ <<"road", ".", "shp">> \notin fs_files

\* ========================================================= exclude_by_mask
\* Most line features, mask polygons and pool threads.
MaxLines == 3
MaxPolys == 2
MaxWorkers == 2

\* A geometry is the set of cells of a strip 1..3 it covers; its bounding
\* box is the stretch from its first to its last cell.
LineGeoms == {{1}, {3}, {1, 3}}
PolyGeoms == {{1}, {2}, {2, 3}}

boundingBox(geom) ==
    {c \in 1..3 : (\E a \in geom : a <= c) /\ (\E b \in geom : c <= b)}

\* QgsGeometry.intersects.
intersects(geom_1, geom_2) == geom_1 \cap geom_2 # {}

\* QgsSpatialIndex.intersects(rectangle): the polygons whose bounding box
\* meets the rectangle.
index_intersects(polys, rectangle) ==
    {p \in DOMAIN polys : boundingBox(polys[p]) \cap rectangle # {}}

LinePath == <<"result1">>
MaskPath == <<"water">>

\* A result iterator that hands out whichever finished task it finds.
results_next_any(task, consumed) == {i \in DOMAIN task : i \notin consumed /\ task[i].st = "done"}

\* construct_qgis_functions.py:588,591: executor.map hands the results out
\* in the order of submission: the first task not yet taken, once it is done.
results_next(task, consumed) ==
    {i \in DOMAIN task : i \notin consumed /\ task[i].st = "done" /\ \A j \in 1..(i - 1) : j \in consumed}

Task(st, cands, ret) == [st |-> st, cands |-> cands, ret |-> ret]

InitMask ==
    /\ mk_pc = "call"
    /\ mk_lines \in SeqsUpTo(LineGeoms, MaxLines)
    /\ mk_polys \in SeqsUpTo(PolyGeoms, MaxPolys)
    /\ mk_task = <<>>
    /\ mk_consumed = {}
    /\ mk_result = <<>>
    /\ mk_ret = NoPath
    /\ disk = [q \in {LinePath, MaskPath} |->
                 IF q = LinePath THEN InputLayer(Len(mk_lines), FALSE) ELSE InputLayer(Len(mk_polys), FALSE)]

\* construct_qgis_functions.py:553-588: name the output, delete a layer
\* already there, index both inputs, open the layers, build the polygon
\* index and the empty result layer, and submit one task per line feature.
MaskEnter ==
    /\ mk_pc = "call"
    /\ LET out == generate_save_path(LinePath, "mask")
           cleared == IF path_exists(disk, out) THEN delete_shapefile(disk, out) ELSE disk
       IN disk' = create_spatial_index(create_spatial_index(cleared, LinePath), MaskPath)
    /\ mk_task' = [i \in DOMAIN mk_lines |-> Task("queued", {}, "none")]
    /\ mk_pc' = "pool"
    /\ UNCHANGED <<mk_lines, mk_polys, mk_consumed, mk_result, mk_ret>>
    /\ UNCHANGED mkOthers

\* A free pool thread takes the oldest queued task and runs
\* process_line_feature up to the index query (lines 573-575).
WorkerStart ==
    /\ mk_pc = "pool"
    /\ Cardinality({i \in DOMAIN mk_task : mk_task[i].st = "running"}) < MaxWorkers
    /\ \E i \in DOMAIN mk_task :
          /\ mk_task[i].st = "queued"
          /\ \A j \in 1..(i - 1) : mk_task[j].st # "queued"
          /\ mk_task' = [mk_task EXCEPT ![i] =
                            Task("running", index_intersects(mk_polys, boundingBox(mk_lines[i])), "none")]
    /\ UNCHANGED <<mk_pc, mk_lines, mk_polys, mk_consumed, mk_result, mk_ret, disk>>
    /\ UNCHANGED mkOthers

\* construct_qgis_functions.py:577-581: one iteration over the candidate
\* polygons: a polygon that intersects the line ends the task with None.
WorkerCheck ==
    /\ mk_pc = "pool"
    /\ \E i \in DOMAIN mk_task :
          /\ mk_task[i].st = "running"
          /\ \E poly_id \in mk_task[i].cands :
                mk_task' = [mk_task EXCEPT ![i] =
                               IF intersects(mk_lines[i], mk_polys[poly_id])
                               THEN Task("done", {}, "drop")
                               ELSE Task("running", mk_task[i].cands \ {poly_id}, "none")]
    /\ UNCHANGED <<mk_pc, mk_lines, mk_polys, mk_consumed, mk_result, mk_ret, disk>>
    /\ UNCHANGED mkOthers

\* construct_qgis_functions.py:583: no candidate intersects: the task ends
\* with (True, line_feature).
WorkerFinish ==
    /\ mk_pc = "pool"
    /\ \E i \in DOMAIN mk_task :
          /\ mk_task[i].st = "running"
          /\ mk_task[i].cands = {}
          /\ mk_task' = [mk_task EXCEPT ![i] = Task("done", {}, "keep")]
    /\ UNCHANGED <<mk_pc, mk_lines, mk_polys, mk_consumed, mk_result, mk_ret, disk>>
    /\ UNCHANGED mkOthers

\* construct_qgis_functions.py:591-594: the orchestrating thread takes the
\* next result and adds the feature when the task kept it.
ReducerTake ==
    /\ mk_pc = "pool"
    /\ \E i \in results_next(mk_task, mk_consumed) :
          /\ mk_consumed' = mk_consumed \cup {i}
          /\ mk_result' = IF mk_task[i].ret = "keep" THEN Append(mk_result, i - 1) ELSE mk_result
    /\ UNCHANGED <<mk_pc, mk_lines, mk_polys, mk_task, mk_ret, disk>>
    /\ UNCHANGED mkOthers

\* construct_qgis_functions.py:596-606: every result taken, the pool shut
\* down; the result layer is written, a failed write returns "".
MaskExport ==
    /\ mk_pc = "pool"
    /\ mk_consumed = DOMAIN mk_task
    /\ LET out == generate_save_path(LinePath, "mask")
           result_layer == Layer(disk[LinePath].fields,
                                 [k \in DOMAIN mk_result |-> disk[LinePath].feats[mk_result[k] + 1]])
       IN \E write_ok \in BOOLEAN :
             IF write_ok
             THEN disk' = write_layer(disk, out, result_layer) /\ mk_ret' = out
             ELSE UNCHANGED disk /\ mk_ret' = Sentinel
    /\ mk_pc' = "returned"
    /\ UNCHANGED <<mk_lines, mk_polys, mk_task, mk_consumed, mk_result>>
    /\ UNCHANGED mkOthers

NextMask == MaskEnter \/ WorkerStart \/ WorkerCheck \/ WorkerFinish \/ ReducerTake \/ MaskExport

\* ------------------------------------------------ exclude_by_mask: claims
\* The ids of the lines among the first n that intersect no mask polygon, in layer order.
OutsideIds(n) ==
    LET F[i \in 0..n] ==
            IF i = 0 THEN <<>>
            ELSE IF \E p \in DOMAIN mk_polys : mk_lines[i] \cap mk_polys[p] # {}
            THEN F[i - 1] ELSE Append(F[i - 1], i - 1)
    IN F[n]

\* C21: whatever the interleaving of the pool threads, the features added to
\* the result layer are at every moment the lines, among those whose result
\* was taken, that intersect no mask polygon, each once and in layer order,
\* and the layer written holds exactly these for the whole input; the result
\* layer changes only when the orchestrating thread takes a finished task's
\* result, and no step of a pool thread changes the line layer, the mask
\* layer, the geometries or the result layer.
C21_MaskOrderIndependent ==
    /\ [](mk_pc \in {"pool", "returned"}
            => /\ mk_consumed = 1..Cardinality(mk_consumed)
               /\ mk_result = OutsideIds(Cardinality(mk_consumed)))
    /\ []((mk_pc = "returned" /\ mk_ret # Sentinel)
            => /\ mk_ret = generate_save_path(LinePath, "mask")
               /\ [k \in DOMAIN disk[mk_ret].feats |-> disk[mk_ret].feats[k].geom] = OutsideIds(Len(mk_lines)))
    /\ [][(mk_result' # mk_result)
            => \E i \in DOMAIN mk_task :
                  /\ mk_task[i].st = "done"
                  /\ mk_task[i].ret = "keep"
                  /\ mk_consumed' = mk_consumed \cup {i}
                  /\ i \notin mk_consumed
                  /\ mk_task' = mk_task]_vars
    /\ [][(mk_pc = "pool" /\ mk_task' # mk_task)
            => /\ UNCHANGED <<mk_lines, mk_polys, mk_result, mk_consumed, disk>>]_vars

\* C21 witness: the third task finished and kept its line while the second
\* was still running, after the orchestrating thread had added the first;
\* the second line is dropped.
C21_Witness ==
    /\ mk_pc = "pool"
    /\ Len(mk_lines) = 3
    /\ mk_consumed = {1}
    /\ mk_result = <<0>>
    /\ mk_task[2].st = "running"
    /\ mk_task[3].st = "done"
    /\ mk_task[3].ret = "keep"
    /\ \E p \in DOMAIN mk_polys : mk_lines[2] \cap mk_polys[p] # {}

\* ======================================================== extract_by_value
\* The operator symbols a caller can hand in.
OperatorSymbols == {"=", "!=", ">", ">=", "<", "<="}

\* construct_qgis_functions.py:276-287: the local operator after the
\* if / elif chain.
operator_code(operator) ==
    CASE operator = "=" -> 0
      [] operator = "!=" -> 1
      [] operator = ">" -> 2
      [] operator = ">=" -> 3
      [] operator = "<" -> 4
      [] operator = "<=" -> 5
      [] OTHER -> operator

\* construct_qgis_functions.py:292-298: the request; 'OPERATOR' : 0.
extract_params(field_name, input_feature_path, operator, extracted_path, value) ==
    [FIELD |-> field_name, INPUT |-> input_feature_path, OPERATOR |-> 0,
     OUTPUT |-> extracted_path, VALUE |-> value]

ExtractInput == <<"natural">>

InitExtract ==
    /\ ev_pc = "call"
    /\ ev_operator \in OperatorSymbols
    /\ ev_value \in 0..MaxVal
    /\ ev_request = <<>>
    /\ ev_ret = NoPath
    /\ \E rows \in SeqsUpTo(0..MaxVal, MaxN) : disk = [q \in {ExtractInput} |-> FidLayer(rows)]

\* construct_qgis_functions.py:265-301: extract_by_value(input, "FID",
\* operator, value), whole.
ExtractByValue ==
    /\ ev_pc = "call"
    /\ LET extracted_path == generate_save_path(ExtractInput, "flt")
           cleared == IF path_exists(disk, extracted_path) THEN delete_shapefile(disk, extracted_path) ELSE disk
           params == extract_params("FID", ExtractInput, operator_code(ev_operator), extracted_path, ev_value)
       IN /\ ev_request' = params
          /\ \E svc_ok \in BOOLEAN :
                IF svc_ok
                THEN /\ disk' = write_layer(cleared, params.OUTPUT,
                                            extract_by_attribute(cleared[params.INPUT], params.FIELD,
                                                                 params.OPERATOR, params.VALUE))
                     /\ ev_ret' = extracted_path
                ELSE /\ disk' = cleared
                     /\ ev_ret' = Sentinel
    /\ ev_pc' = "returned"
    /\ UNCHANGED <<ev_operator, ev_value>>
    /\ UNCHANGED evOthers

NextExtract == ExtractByValue

\* ----------------------------------------------- extract_by_value: claims
\* a stands to b in the relation the symbol names.
Relation(symbol, a, b) ==
    CASE symbol = "=" -> a = b
      [] symbol = "!=" -> a # b
      [] symbol = ">" -> a > b
      [] symbol = ">=" -> a >= b
      [] symbol = "<" -> a < b
      [] symbol = "<=" -> a <= b

\* The operator code of each symbol: 0, 1, 2, 3, 4, 5.
CodeOf(symbol) ==
    CASE symbol = "=" -> 0 [] symbol = "!=" -> 1 [] symbol = ">" -> 2
      [] symbol = ">=" -> 3 [] symbol = "<" -> 4 [] symbol = "<=" -> 5

\* C23 (as claimed): the request extract_by_value sends carries the operator
\* code of the caller's symbol, and the layer it returns holds exactly the
\* features whose field stands in that relation to the value.
C23_OperatorApplied ==
    (ev_pc = "returned")
        => /\ ev_request.OPERATOR = CodeOf(ev_operator)
           /\ ev_ret # Sentinel
                => FidColumn(disk[ev_ret])
                     = FidColumn(Layer({"FID"},
                          SubSeqBy(disk[ExtractInput].feats,
                                   {i \in DOMAIN disk[ExtractInput].feats :
                                       Relation(ev_operator, disk[ExtractInput].feats[i].FID, ev_value)})))

\* ====================================== post_process_road and merge_vector
\* native:dissolve with no FIELD: the features become one feature that has
\* the attributes of the first; an empty layer stays empty.
dissolve(layer) ==
    Layer(layer.fields,
          IF Len(layer.feats) = 0 THEN <<>> ELSE <<[layer.feats[1] EXCEPT !.geom = 0, !.src = 0]>>)

\* native:extractspecificvertices with VERTICES '0, -1': the first and the
\* last vertex of every feature, in feature order, with its attributes.
extract_specific_vertices(layer) ==
    Layer(layer.fields,
          [k \in 1..(2 * Len(layer.feats)) |->
              [layer.feats[(k + 1) \div 2] EXCEPT !.geom = k - 1, !.src = ((k + 1) \div 2) - 1]])

\* native:mergevectorlayers: the features of the layers one after another.
merge_vector_layers(layer_1, layer_2, layer_3) ==
    LET all == layer_1.feats \o layer_2.feats \o layer_3.feats
    IN Layer(layer_1.fields \cup layer_2.fields \cup layer_3.fields,
             [i \in DOMAIN all |-> [all[i] EXCEPT !.geom = i - 1]])

\* A stamping that keeps the attributes the layer had.
mess_up_splited_feature_keep(layer) == reindex_feature(layer, "FID")

\* split_LCZ.py:161-171: delete every attribute, add FID, reindex_feature.
mess_up_splited_feature(layer) ==
    reindex_feature([exts |-> layer.exts, fields |-> {},
                     feats |-> [i \in DOMAIN layer.feats |->
                                   Feature(layer.feats[i].geom, layer.feats[i].src, NULL, NULL, NULL)]],
                    "FID")

\* split_LCZ.py:187-200: the loop of exclude_edges over all rows.
scan_rows(rows, single) ==
    LET F[i \in 0..Len(rows)] == IF i = 0 THEN ScanInit ELSE ScanRow(F[i - 1], rows[i], single)
    IN F[Len(rows)]

\* split_LCZ.py:173-201: exclude_edges on the layer at path: the list it
\* returns, whether it raised, and the errors it logged.  A layer that
\* cannot be read has no fields.
exclude_edges(d, path, edge_type, field_name) ==
    IF ~ValidEdgeType(edge_type)
    THEN [stack |-> <<>>, raised |-> TRUE, logged |-> 1]
    ELSE IF ~path_exists(d, path) \/ field_name \notin d[path].fields
    THEN [stack |-> <<>>, raised |-> FALSE, logged |-> 1]
    ELSE LET st == scan_rows([i \in DOMAIN d[path].feats |-> d[path].feats[i][field_name]],
                             compare_operator(edge_type))
         IN [stack |-> st.stack, raised |-> st.raised, logged |-> 0]

\* split_LCZ.py:210-222: the merge-scan of calc_remained_road over all rows.
remained_list(fids, excl) ==
    LET F[k \in 0..Len(fids)] ==
            IF k = 0 THEN [remained |-> <<>>, scan_index |-> 0]
            ELSE IF fids[k] = excl[F[k - 1].scan_index + 1]
            THEN [remained |-> F[k - 1].remained,
                  scan_index |-> next_scan_index(F[k - 1].scan_index, Len(excl))]
            ELSE [remained |-> Append(F[k - 1].remained, fids[k]), scan_index |-> F[k - 1].scan_index]
    IN F[Len(fids)].remained

\* construct_qgis_functions.py:17-23: every file "<name>.*" is renamed to the
\* one name "<new_name>.", each rename replacing the file the one before
\* left there (POSIX) or the second raising FileExistsError (Windows).  The
\* outcomes: the disk afterwards and whether rename_shapefile raised.
rename_shapefile(d, shp_path, new_name) ==
    IF listdir_raises(shp_path)
    THEN {[disk |-> d, raised |-> TRUE]}
    ELSE IF shp_path \notin DOMAIN d
    THEN {[disk |-> d, raised |-> FALSE]}
    ELSE LET junk == [exts |-> {""}, fields |-> {}, feats |-> <<>>]
         IN {[disk |-> write_layer(delete_shapefile(d, shp_path), <<new_name>>, junk), raised |-> FALSE]}
            \cup {[disk |-> write_layer([d EXCEPT ![shp_path].exts = @ \ {e}], <<new_name>>, junk), raised |-> TRUE] :
                     e \in {x \in d[shp_path].exts : Cardinality(d[shp_path].exts) > 1}}

\* One statement that is no wrapper call: it is recorded, moves the disk to
\* d2, binds what it binds, logs what it logs and either goes on or raises.
PlainStep(label, next, call, d2, loc2, logged, raised) ==
    /\ pc = label
    /\ calls' = Append(calls, call)
    /\ disk' = d2
    /\ loc' = loc2
    /\ errors' = errors + logged
    /\ pc' = IF raised THEN "raised" ELSE next
    /\ UNCHANGED pl_exclude_list
    /\ UNCHANGED plOthers

\* split_LCZ.py:247.
DissolveShapefile ==
    WrapperStep("post_process_road", "split_line_self", "dissolved_splited_road_path", "dissolve_shapefile",
                loc["filtered_splited_road_path"], <<loc["filtered_splited_road_path"]>>,
                {dissolve(read_layer(disk, loc["filtered_splited_road_path"]))})

\* split_LCZ.py:249: the dissolved road split at its own crossings.
SplitLineSelf ==
    WrapperStep("split_line_self", "split_line_feature", "splited_dissove_path", "split_line_with_line",
                loc["dissolved_splited_road_path"],
                <<loc["dissolved_splited_road_path"], loc["dissolved_splited_road_path"]>>,
                split_outputs(read_layer(disk, loc["dissolved_splited_road_path"])))

\* split_LCZ.py:251: split again by the boundary.
SplitLineFeature ==
    WrapperStep("split_line_feature", "mess_up_splited_feature", "splited_with_feature_path", "split_line_with_line",
                loc["splited_dissove_path"], <<loc["splited_dissove_path"], NaturalPath>>,
                split_outputs(read_layer(disk, loc["splited_dissove_path"])))

\* split_LCZ.py:253: mess_up_splited_feature(splited_with_feature_path).  On
\* a layer that cannot be read reindex_feature logs an error; whether the
\* provider calls before it raise is not fixed by the code.
MessUpSplitedFeature ==
    LET path == loc["splited_with_feature_path"]
        call == Call("mess_up_splited_feature", <<path>>)
    IN IF path_exists(disk, path)
       THEN PlainStep("mess_up_splited_feature", "specific_vertices", call,
                      [disk EXCEPT ![path] = mess_up_splited_feature(disk[path])], loc, 0, FALSE)
       ELSE \E raised \in BOOLEAN :
               PlainStep("mess_up_splited_feature", "specific_vertices", call, disk, loc,
                         IF raised THEN 0 ELSE 1, raised)

\* split_LCZ.py:255.
SpecificVertices ==
    WrapperStep("specific_vertices", "index_endpoint", "endpoint_path", "specific_vertices",
                loc["splited_with_feature_path"], <<loc["splited_with_feature_path"]>>,
                {extract_specific_vertices(read_layer(disk, loc["splited_with_feature_path"]))})

\* split_LCZ.py:257: create_spatial_index(endpoint_path).
IndexEndpoint ==
    PlainStep("index_endpoint", "index_intersection", Call("create_spatial_index", <<loc["endpoint_path"]>>),
              create_spatial_index(disk, loc["endpoint_path"]), loc,
              IF path_exists(disk, loc["endpoint_path"]) THEN 0 ELSE 1, FALSE)

\* split_LCZ.py:258: create_spatial_index(intersection_with_feature_path).
IndexIntersection ==
    PlainStep("index_intersection", "extract_point_intersection",
              Call("create_spatial_index", <<loc["intersection_with_feature_path"]>>),
              create_spatial_index(disk, loc["intersection_with_feature_path"]), loc,
              IF path_exists(disk, loc["intersection_with_feature_path"]) THEN 0 ELSE 1, FALSE)

\* split_LCZ.py:259: the endpoints within distance 2 of a line intersection;
\* positions are not modelled, so any selection of endpoints can come out.
ExtractPointIntersection ==
    WrapperStep("extract_point_intersection", "exclude_edges", "point_intersection_path", "extract_whithindistance",
                loc["endpoint_path"], <<loc["endpoint_path"], loc["intersection_with_feature_path"]>>,
                within_distance_outputs(read_layer(disk, loc["endpoint_path"])))

\* split_LCZ.py:261: exclude_list from the two rules.
ExcludeList ==
    LET bial == exclude_edges(disk, loc["point_intersection_path"], "bial", "FID")
        single == exclude_edges(disk, loc["endpoint_path"], "single", "FID")
    IN /\ pc = "exclude_edges"
       /\ calls' = calls \o <<Call("exclude_edges", <<loc["point_intersection_path"]>>),
                              Call("exclude_edges", <<loc["endpoint_path"]>>)>>
       /\ errors' = errors + bial.logged + single.logged
       /\ IF bial.raised \/ single.raised
          THEN /\ pc' = "raised"
               /\ UNCHANGED pl_exclude_list
          ELSE /\ pc' = "calc_remained_road"
               /\ pl_exclude_list' = union_exclude(bial.stack, single.stack)
       /\ UNCHANGED <<loc, disk>>
       /\ UNCHANGED plOthers

\* split_LCZ.py:263 (203-244): calc_remained_road(splited_with_feature_path,
\* exclude_list), whole; the export of a layer that cannot be read fails.
CalcRemainedRoad ==
    LET path == loc["splited_with_feature_path"]
        layer == read_layer(disk, path)
        output_layer == materialize(layer, remained_list(FidColumn(layer), pl_exclude_list))
        output_path == generate_save_path(path, "selected")
        cleared == IF path_exists(disk, output_path) THEN delete_shapefile(disk, output_path) ELSE disk
        call == Call("calc_remained_road", <<path>>)
    IN IF exclude_is_empty(pl_exclude_list)
       THEN PlainStep("calc_remained_road", "delete_dissolved", call, disk,
                      [loc EXCEPT !["remained_road_path"] = path], 0, FALSE)
       ELSE \E write_ok \in {b \in BOOLEAN : b => path_exists(disk, path)} :
               IF write_ok
               THEN PlainStep("calc_remained_road", "delete_dissolved", call,
                              write_layer(cleared, output_path, output_layer),
                              [loc EXCEPT !["remained_road_path"] = output_path], 0, FALSE)
               ELSE PlainStep("calc_remained_road", "delete_dissolved", call, cleared,
                              [loc EXCEPT !["remained_road_path"] = Sentinel], 1, FALSE)

\* split_LCZ.py:265-266.
DeleteDissolved == DeleteStep("delete_dissolved", "delete_splited_dissove", loc["dissolved_splited_road_path"])

\* split_LCZ.py:266-268: the last delete, then post_process_road returns
\* remained_road_path (merge_shapefile's processed_road_path).
DeleteSplitedDissove == DeleteStep("delete_splited_dissove", "merge_layers", loc["splited_dissove_path"])

\* split_LCZ.py:271 (merge_vector): merge_layers([processed_road_path, natural_path, water_path], 32650).
MergeLayers ==
    WrapperStep("merge_layers", "dissolve_merged", "merged_path", "merge_layers",
                loc["remained_road_path"], <<loc["remained_road_path"], NaturalPath, WaterPath>>,
                {merge_vector_layers(read_layer(disk, loc["remained_road_path"]),
                                     read_layer(disk, NaturalPath), read_layer(disk, WaterPath))})

\* split_LCZ.py:272.
DissolveMerged ==
    WrapperStep("dissolve_merged", "rename_shapefile", "dissolved_path", "dissolve_shapefile",
                loc["merged_path"], <<loc["merged_path"]>>, {dissolve(read_layer(disk, loc["merged_path"]))})

\* split_LCZ.py:273: rename_shapefile(dissolved_path, "boundary").
RenameShapefile ==
    \E r \in rename_shapefile(disk, loc["dissolved_path"], "boundary") :
        PlainStep("rename_shapefile", "return", Call("rename_shapefile", <<loc["dissolved_path"]>>),
                  r.disk, loc, 0, r.raised)

\* split_LCZ.py:274,283-284: merge_vector returns merged_path and
\* merge_shapefile returns it as merged_vector_path.
MergeShapefileReturn ==
    /\ pc = "return"
    /\ loc' = [loc EXCEPT !["merged_vector_path"] = loc["merged_path"]]
    /\ pc' = "returned"
    /\ UNCHANGED <<calls, errors, pl_exclude_list, disk>>
    /\ UNCHANGED plOthers

\* merge_shapefile, whole.
Next ==
    \/ SplitLines
    \/ CalcLineIntersection
    \/ CalcLineCentroid
    \/ ExtractWithinDistance
    \/ JoinByAttribute
    \/ ExtractNonullAttribute
    \/ DeleteSplitedRoad
    \/ DeleteCentroid
    \/ DeleteDistance
    \/ DeleteJoined
    \/ DissolveShapefile
    \/ SplitLineSelf
    \/ SplitLineFeature
    \/ MessUpSplitedFeature
    \/ SpecificVertices
    \/ IndexEndpoint
    \/ IndexIntersection
    \/ ExtractPointIntersection
    \/ ExcludeList
    \/ CalcRemainedRoad
    \/ DeleteDissolved
    \/ DeleteSplitedDissove
    \/ MergeLayers
    \/ DissolveMerged
    \/ RenameShapefile
    \/ MergeShapefileReturn

\* ------------------------------------------ merge_shapefile, whole: claims
\* The operations of merge_shapefile in program order, stage by stage.
StageOrder ==
    <<"split_lines",
      "calc_line_intersection",
      "calc_line_centroid", "extract_whithindistance", "join_by_attribute", "extract_nonull_attribute",
      "delete_shapefile", "delete_shapefile", "delete_shapefile", "delete_shapefile",
      "dissolve_shapefile", "split_line_with_line", "split_line_with_line", "mess_up_splited_feature",
      "specific_vertices", "create_spatial_index", "create_spatial_index", "extract_whithindistance",
      "exclude_edges", "exclude_edges",
      "calc_remained_road", "delete_shapefile", "delete_shapefile",
      "merge_layers", "dissolve_shapefile", "rename_shapefile">>

\* The k-th call was handed exactly the paths args.
CalledWith(k, args) == k \in DOMAIN calls => calls[k].args = args

\* C11: the operations of every run of merge_shapefile are a prefix of the
\* program order (split and stamp, line intersections, proximity filter,
\* dissolve / self-split / boundary split / FID stamp / endpoints / pairing /
\* exclusion, selection, merge and dissolve), each stage is handed what the
\* stage before it returned, and a run that returns has gone through all of
\* them and returns the merged layer path.
C11_StageOrder ==
    /\ Len(calls) <= Len(StageOrder)
    /\ \A k \in DOMAIN calls : calls[k].op = StageOrder[k]
    /\ CalledWith(1, <<BaseRoad, NaturalPath>>)
    /\ CalledWith(2, <<loc["splited_road_path"], NaturalPath>>)
    /\ CalledWith(3, <<loc["splited_road_path"]>>)
    /\ CalledWith(11, <<loc["filtered_splited_road_path"]>>)
    /\ CalledWith(18, <<loc["endpoint_path"], loc["intersection_with_feature_path"]>>)
    /\ CalledWith(21, <<loc["splited_with_feature_path"]>>)
    /\ CalledWith(24, <<loc["remained_road_path"], NaturalPath, WaterPath>>)
    /\ CalledWith(25, <<loc["merged_path"]>>)
    /\ pc = "returned"
        => /\ Len(calls) = Len(StageOrder)
           /\ loc["merged_vector_path"] = loc["merged_path"]

\* C11 witness: a run without a logged error has returned the merged layer
\* path after excluding a fragment.
C11_Witness ==
    /\ pc = "returned"
    /\ errors = 0
    /\ Len(pl_exclude_list) > 0
    /\ loc["merged_vector_path"] = generate_save_path(loc["remained_road_path"], "m")
    /\ loc["remained_road_path"] = generate_save_path(loc["splited_with_feature_path"], "selected")

\* mess_up_splited_feature has run on a layer it could read.
FidStamped ==
    /\ \E k \in DOMAIN calls : calls[k].op = "mess_up_splited_feature"
    /\ path_exists(disk, loc["splited_with_feature_path"])

\* C19: once mess_up_splited_feature has run, FID is the only attribute of
\* the layer (monoid and FID_2 are gone) and the FID values in iteration
\* order are 0..N-1, each the feature's own id, so strictly increasing and
\* pairwise distinct.
C19_FidPositionalOnly ==
    FidStamped
        => LET layer == disk[loc["splited_with_feature_path"]]
           IN /\ layer.fields = {"FID"}
              /\ \A i \in DOMAIN layer.feats :
                    /\ layer.feats[i].FID = i - 1
                    /\ layer.feats[i].monoid = NULL
                    /\ layer.feats[i].FID_2 = NULL
              /\ FidColumn(layer) = Stamped(Len(layer.feats))
              /\ StrictlyIncreasing(FidColumn(layer))

\* C19 witness: the layer that was split to give the stamped layer carried
\* monoid and FID_2, and the stamped layer has a fragment whose FID is not the
\* id of the feature it was cut from.
C19_Witness ==
    /\ pc = "specific_vertices"
    /\ FidStamped
    /\ path_exists(disk, loc["splited_dissove_path"])
    /\ {"monoid", "FID_2"} \subseteq disk[loc["splited_dissove_path"]].fields
    /\ \E i \in DOMAIN disk[loc["splited_with_feature_path"]].feats :
          disk[loc["splited_with_feature_path"]].feats[i].src # i - 1

\* post_process_road has returned to merge_shapefile.
PostProcessReturned == pc \in {"merge_layers", "dissolve_merged", "rename_shapefile", "return", "returned"}

\* No step so far has failed: nothing was logged as an error and nothing raised.
FailureFree == errors = 0 /\ pc # "raised"

\* The layers post_process_road created and superseded: the dissolved road,
\* the self-split road, the endpoint layer, the proximity-pairing layer and,
\* once a selected layer was exported, the FID-stamped split layer.
SupersededByPostProcess ==
    {loc["dissolved_splited_road_path"], loc["splited_dissove_path"], loc["endpoint_path"],
     loc["point_intersection_path"]}
        \cup (IF loc["remained_road_path"] # loc["splited_with_feature_path"]
              THEN {loc["splited_with_feature_path"]} ELSE {})

\* C12 (as claimed): when post_process_road has returned after a failure-free
\* run none of the intermediate layers it superseded is on disk any more, and
\* when merge_shapefile has returned the line-intersection layer is gone too.
C12_IntermediatesDeleted ==
    /\ (PostProcessReturned /\ FailureFree)
          => \A q \in SupersededByPostProcess : q \notin DOMAIN disk
    /\ (pc = "returned" /\ FailureFree)
          => loc["intersection_with_feature_path"] \notin DOMAIN disk

\* The paths a recorded call was handed, the sentinel left out.
RealArgs(k) == SetOf(calls[k].args) \ {Sentinel}

\* The calls that write a layer at a path of their own naming, handed real paths only.
WritingCalls ==
    {k \in DOMAIN calls : (calls[k].op \in Wrappers \cup {"calc_remained_road"}) /\ Sentinel \notin SetOf(calls[k].args)}

\* The path the k-th call deletes and then writes.
OutputOf(k) ==
    IF calls[k].op = "calc_remained_road" THEN generate_save_path(calls[k].args[1], "selected")
    ELSE IF calls[k].op = "split_lines" THEN generate_save_path(calls[k].args[2], WrapperTag(calls[k].op))
    ELSE generate_save_path(calls[k].args[1], WrapperTag(calls[k].op))

\* The layers the statement at pc reads.
InputsAt(label) ==
    CASE label = "split_lines" -> {BaseRoad, NaturalPath}
      [] label = "calc_line_intersection" -> {loc["splited_road_path"], NaturalPath}
      [] label = "calc_line_centroid" -> {loc["splited_road_path"]}
      [] label = "extract_whithindistance" -> {loc["splited_road_centroid_path"], NaturalPath}
      [] label = "join_by_attribute" -> {loc["splited_road_path"], loc["distance_extracted_centroid_path"]}
      [] label = "extract_nonull_attribute" -> {loc["joined_splited_road_path"]}
      [] label = "post_process_road" -> {loc["filtered_splited_road_path"]}
      [] label = "split_line_self" -> {loc["dissolved_splited_road_path"]}
      [] label = "split_line_feature" -> {loc["splited_dissove_path"], NaturalPath}
      [] label = "mess_up_splited_feature" -> {loc["splited_with_feature_path"]}
      [] label = "specific_vertices" -> {loc["splited_with_feature_path"]}
      [] label = "index_endpoint" -> {loc["endpoint_path"]}
      [] label = "index_intersection" -> {loc["intersection_with_feature_path"]}
      [] label = "extract_point_intersection" -> {loc["endpoint_path"], loc["intersection_with_feature_path"]}
      [] label = "exclude_edges" -> {loc["point_intersection_path"], loc["endpoint_path"]}
      [] label = "calc_remained_road" -> {loc["splited_with_feature_path"]}
      [] label = "merge_layers" -> {loc["remained_road_path"], NaturalPath, WaterPath}
      [] label = "dissolve_merged" -> {loc["merged_path"]}
      [] label = "rename_shapefile" -> {loc["dissolved_path"]}
      [] label = "returned" -> {loc["merged_vector_path"]}
      [] OTHER -> {}

\* C20: in a run of merge_shapefile no call is handed a path that an earlier
\* delete_shapefile was handed; the path a step deletes and writes is neither
\* one of its own inputs, nor a layer handed to the pipeline, nor the output
\* of an earlier step; while no step has failed every layer the next
\* statement reads is on disk; and the line-intersection layer is computed
\* from the split road before any delete.
C20_NoDeadOrClobberedLayer ==
    /\ \A j, k \in DOMAIN calls :
          (j < k /\ calls[j].op = "delete_shapefile") => RealArgs(j) \cap RealArgs(k) = {}
    /\ \A k \in WritingCalls :
          /\ OutputOf(k) \notin RealArgs(k) \cup {BaseRoad, NaturalPath, WaterPath}
          /\ \A j \in WritingCalls : j < k => OutputOf(j) # OutputOf(k)
    /\ FailureFree => \A q \in InputsAt(pc) : path_exists(disk, q)
    /\ \A k \in DOMAIN calls :
          calls[k].op = "calc_line_intersection"
              => /\ calls[k].args[1] = loc["splited_road_path"]
                 /\ \A j \in 1..k : calls[j].op # "delete_shapefile"

\* C20 witness: post_process_road has returned from a failure-free run that
\* exported a selected layer; the split road is gone, the line-intersection
\* layer computed from it is on disk.
C20_Witness ==
    /\ pc = "merge_layers"
    /\ FailureFree
    /\ loc["splited_road_path"] \notin DOMAIN disk
    /\ path_exists(disk, loc["intersection_with_feature_path"])
    /\ loc["remained_road_path"] = generate_save_path(loc["splited_with_feature_path"], "selected")
    /\ path_exists(disk, loc["remained_road_path"])
    /\ Len(calls) = 23

\* exclude_edges is not running.
ExcludeIdle ==
    /\ ee_rows = <<>>
    /\ ee_type = "bial"
    /\ ee_has_field = TRUE
    /\ ee_pc = "idle"
    /\ ee_i = 0
    /\ ee_stack = <<>>
    /\ ee_last_fid = 0
    /\ ee_ret = Unset
    /\ ee_errors = 0
    /\ ee_opened = FALSE

\* calc_remained_road is not running.
RemainIdle ==
    /\ rr_caller = "none"
    /\ rr_pc = "idle"
    /\ rr_path = NoPath
    /\ rr_fids = <<>>
    /\ rr_bial = <<>>
    /\ rr_single = <<>>
    /\ rr_exclude = <<>>
    /\ rr_scan_index = 0
    /\ rr_remained = <<>>
    /\ rr_k = 0
    /\ rr_branch = "none"
    /\ rr_ret = NoPath
    /\ rr_warnings = 0
    /\ rr_errors = 0
    /\ rr_disk0 = <<>>

\* merge_shapefile is not running.
PipelineIdle ==
    /\ pc = "idle"
    /\ loc = <<>>
    /\ calls = <<>>
    /\ errors = 0
    /\ pl_exclude_list = <<>>

\* Neither delete_shapefile nor rename_shapefile is running on its own.
FilesIdle ==
    /\ fs_pc = "idle"
    /\ fs_op = "none"
    /\ fs_path = <<>>
    /\ fs_new_name = <<>>
    /\ fs_posix = TRUE
    /\ fs_files = {}
    /\ fs_files0 = {}
    /\ fs_todo = {}

\* exclude_by_mask is not running.
MaskIdle ==
    /\ mk_pc = "idle"
    /\ mk_lines = <<>>
    /\ mk_polys = <<>>
    /\ mk_task = <<>>
    /\ mk_consumed = {}
    /\ mk_result = <<>>
    /\ mk_ret = NoPath

\* extract_by_value is not running.
ExtractIdle ==
    /\ ev_pc = "idle"
    /\ ev_operator = "none"
    /\ ev_value = 0
    /\ ev_request = <<>>
    /\ ev_ret = NoPath

\* No wrapper is being called on its own.
WrapperIdle ==
    /\ ws_pc = "idle"
    /\ ws_wrapper = "none"
    /\ ws_a = NoPath
    /\ ws_b = NoPath
    /\ ws_good = FALSE
    /\ ws_ret = NoPath
    /\ ws_logged = 0

InitExcludeSpec == InitExclude /\ RemainIdle /\ PipelineIdle /\ WrapperIdle /\ FilesIdle /\ MaskIdle /\ ExtractIdle /\ disk = <<>>

SpecExclude == InitExcludeSpec /\ [][NextExclude]_vars

InitWrapperSpec == InitWrapper /\ ExcludeIdle /\ RemainIdle /\ PipelineIdle /\ FilesIdle /\ MaskIdle /\ ExtractIdle

SpecWrapper == InitWrapperSpec /\ [][NextWrapper]_vars

InitPipelineSpec == InitPipeline /\ ExcludeIdle /\ RemainIdle /\ WrapperIdle /\ FilesIdle /\ MaskIdle /\ ExtractIdle

SpecFilter == InitPipelineSpec /\ [][NextFilter]_vars

InitRemainSpec == InitRemain /\ ExcludeIdle /\ PipelineIdle /\ WrapperIdle /\ FilesIdle /\ MaskIdle /\ ExtractIdle

SpecRemain == InitRemainSpec /\ [][NextRemain]_vars

Spec == InitPipelineSpec /\ [][Next]_vars

InitFilesSpec == InitFiles /\ ExcludeIdle /\ RemainIdle /\ PipelineIdle /\ WrapperIdle /\ MaskIdle /\ ExtractIdle /\ disk = <<>>

SpecFiles == InitFilesSpec /\ [][NextFiles]_vars

InitMaskSpec == InitMask /\ ExcludeIdle /\ RemainIdle /\ PipelineIdle /\ WrapperIdle /\ FilesIdle /\ ExtractIdle

SpecMask == InitMaskSpec /\ [][NextMask]_vars

InitExtractSpec == InitExtract /\ ExcludeIdle /\ RemainIdle /\ PipelineIdle /\ WrapperIdle /\ FilesIdle /\ MaskIdle

SpecExtract == InitExtractSpec /\ [][NextExtract]_vars

====
